---- MODULE Spec2Model ----
(***************************************************************************)
(* A model of the wordsearch generator: src/src/grid.rs (Grid::new,        *)
(* Grid::generate, Grid::place_word, Grid::try_word, Grid::fill,           *)
(* Grid::empty_count, Direction::next, Direction::ranges) and column_iter  *)
(* of src/src/main.rs.                                                     *)
(*                                                                         *)
(* A usize is modelled by a mathematical integer: a value v >= 0 is        *)
(* itself, a value v < 0 stands for the wrapped value 2^64 + v that a      *)
(* build without overflow checks produces.  A build with overflow checks   *)
(* panics instead; which build runs is decided at the first underflow      *)
(* (overflow_checks).                                                      *)
(*                                                                         *)
(* An Option<usize> is a sequence: <<>> is None, <<v>> is Some(v).         *)
(* A word is a sequence of letters; a cell is a letter or NoneCell.        *)
(***************************************************************************)
EXTENDS Integers, Sequences, FiniteSets, TLC

\* ------------------------------------------------------------- bounds
NumLetters == 2      \* letters of 'A'..='Z' the model draws from
MaxLen == 2          \* longest word handed to a generation run
MaxWords == 2        \* most words handed to a generation run
MaxOverride == 2     \* largest width/height override
MaxDim == 2          \* largest axis of a directly constructed grid
EngineMaxWords == 3  \* most words of a directly constructed Grid
DimsMaxWords == 35   \* most words handed to Grid::new alone
DimsMaxLen == 3      \* longest word handed to Grid::new alone
MaxImageWidth == 7   \* widest small image handed to column_iter
MaxYStride == 2      \* largest small line height handed to column_iter
MaxColumns == 3      \* most columns handed to column_iter
MaxLength == 7       \* most words laid out by column_iter

\* ------------------------------------------------------------- values
AZ == << "A", "B", "C", "D", "E", "F", "G", "H", "I", "J", "K", "L", "M",
         "N", "O", "P", "Q", "R", "S", "T", "U", "V", "W", "X", "Y", "Z" >>

Alphabet == { AZ[i] : i \in 1..NumLetters }

NoneCell == "-"

NoneOpt == << >>

Some(v) == << v >>

unwrap_or(opt, default) == IF opt = NoneOpt THEN default ELSE opt[1]

max(a, b) == IF a >= b THEN a ELSE b

WordsUpTo(n) == UNION { [1..k -> Alphabet] : k \in 0..n }

ListsUpTo(n, W) == UNION { [1..k -> W] : k \in 0..n }

RECURSIVE SumLen(_)
SumLen(ws) == IF ws = << >> THEN 0 ELSE Len(Head(ws)) + SumLen(Tail(ws))

RECURSIVE MaxLenOf(_)
MaxLenOf(ws) == IF ws = << >> THEN 0 ELSE max(Len(Head(ws)), MaxLenOf(Tail(ws)))

\* ------------------------------------------------------------- f32
(* An f32 is [m, e], the value m * 2^e, with m = 0 or 2^23 <= m < 2^24.    *)
(* The operands below are integers under 2^24, which `as f32` converts     *)
(* exactly; every operation rounds to nearest, ties to even.               *)
MantBits == 24

Pow2(k) == 2 ^ k

RECURSIVE FloorLog2(_)
FloorLog2(n) == IF n <= 1 THEN 0 ELSE 1 + FloorLog2(n \div 2)

\* q / 2^k and its remainder r out of d, rounded to nearest, ties to even
RoundQuot(q, r, d) == IF 2 * r > d \/ (2 * r = d /\ q % 2 = 1) THEN q + 1 ELSE q

F32Norm(m, e) == IF m = Pow2(MantBits) THEN [m |-> m \div 2, e |-> e + 1]
                 ELSE [m |-> m, e |-> e]

\* (s as f32) / (n as f32), n > 0
RECURSIVE QuotShift(_, _, _)
QuotShift(s, n, p) == IF (s * Pow2(p)) \div n >= Pow2(MantBits - 1) THEN p
                      ELSE QuotShift(s, n, p + 1)

F32Div(s, n) ==
    IF s = 0 THEN [m |-> 0, e |-> 0]
    ELSE LET p == QuotShift(s, n, 0)
             num == s * Pow2(p)
         IN  F32Norm(RoundQuot(num \div n, num % n, n), 0 - p)

\* a * (n as f32)
F32MulInt(a, n) ==
    IF a.m = 0 \/ n = 0 THEN [m |-> 0, e |-> 0]
    ELSE LET prod == a.m * n
             k == FloorLog2(prod) - (MantBits - 1)
         IN  F32Norm(RoundQuot(prod \div Pow2(k), prod % Pow2(k), Pow2(k)), a.e + k)

\* a * 2.0
F32Double(a) == IF a.m = 0 THEN a ELSE [m |-> a.m, e |-> a.e + 1]

\* the integer k >= 1 as an f32
F32OfInt(k) == LET b == FloorLog2(k)
               IN  [m |-> k * Pow2(MantBits - 1 - b), e |-> b - (MantBits - 1)]

F32Leq(a, b) == a.m = 0 \/ (b.m # 0 /\ (a.e < b.e \/ (a.e = b.e /\ a.m <= b.m)))

(* f32::sqrt(t) <= k, for an integer k >= 1.  sqrt is correctly rounded    *)
(* and monotone, so this holds when t <= k*k; the next f32 above k*k is    *)
(* k*k + U with U = ulp(k*k), whose root k + U/(2k) - ... rounds down to k *)
(* exactly when U/k <= ulp(k), that is when k*k < 2 * 4^FloorLog2(k); the  *)
(* second f32 above k*k always rounds above k.                             *)
F32SqrtLeqInt(t, k) ==
    LET sq == F32OfInt(k * k)
    IN  \/ F32Leq(t, sq)
        \/ /\ k * k < 2 * Pow2(2 * FloorLog2(k))
           /\ t.e = sq.e
           /\ t.m = sq.m + 1

\* f32::sqrt(t).ceil() as usize
RECURSIVE LeastRootBound(_, _)
LeastRootBound(t, k) == IF F32SqrtLeqInt(t, k) THEN k ELSE LeastRootBound(t, k + 1)

F32SqrtCeil(t) == IF t.m = 0 THEN 0 ELSE LeastRootBound(t, 1)

\* Grid::new: default_size
default_size(ws) ==
    LET avg_len == F32Div(SumLen(ws), Len(ws))
        num_letters == F32MulInt(avg_len, Len(ws))
    IN  F32SqrtCeil(F32Double(num_letters))


\* ------------------------------------------------------------- Direction
Direction == { "East", "Southeast", "South", "Southwest",
               "West", "Northwest", "North", "Northeast" }

\* Direction::next: (dx, dy)
next(dir) ==
    CASE dir = "East"      -> << 1, 0 >>
      [] dir = "Southeast" -> << 1, 1 >>
      [] dir = "South"     -> << 0, 1 >>
      [] dir = "Southwest" -> << -1, 1 >>
      [] dir = "West"      -> << -1, 0 >>
      [] dir = "Northwest" -> << -1, -1 >>
      [] dir = "North"     -> << 0, -1 >>
      [] dir = "Northeast" -> << 1, -1 >>

\* axis_range with the non-negative arm one too far
axis_range_one_past(d, len, size) == IF d < 0 THEN << len - 1, size - 1 >>
                                     ELSE << 0, size - len + 1 >>

\* one axis of Direction::ranges: (min, max) of the start coordinate
axis_range(d, len, size) == IF d < 0 THEN << len - 1, size - 1 >>
                            ELSE << 0, size - len >>

\* Direction::ranges: the two inclusive start ranges
ranges(dir, len, w, h) ==
    [ x |-> axis_range(next(dir)[1], len, w),
      y |-> axis_range(next(dir)[2], len, h) ]

\* a usize subtraction of ranges went below zero
Underflows(rg) == rg.x[1] < 0 \/ rg.x[2] < 0 \/ rg.y[1] < 0 \/ rg.y[2] < 0

\* a <= b on usize values (a negative integer is a wrapped, huge value)
UsizeLeq(a, b) == IF (a < 0) = (b < 0) THEN a <= b ELSE b < 0

\* RangeInclusive::is_empty, on which gen_range panics
RangeEmpty(r) == ~UsizeLeq(r[1], r[2])

(* The values gen_range(r) can return.  A range that ends in a wrapped     *)
(* value holds every usize from r[1] up to it: of those at or beyond the   *)
(* axis size, which all index outside the grid alike, two stand for all.   *)
Samples(r, size) ==
    IF r[1] >= 0 /\ r[2] < 0
    THEN (r[1]..max(r[1], size)) \cup { r[2] }
    ELSE r[1]..r[2]

\* ------------------------------------------------------------- Grid
VARIABLES
    arg_wordlist,    \* Grid::new's wordlist argument
    arg_width,       \* Grid::new's width argument, an Option<usize>
    arg_height,      \* Grid::new's height argument, an Option<usize>
    pc,              \* where the run is
    wordlist,        \* Grid.wordlist: the words not yet begun
    width,           \* Grid.width
    height,          \* Grid.height
    grid,            \* Grid.grid: grid[y][x], rows 0..height-1, columns 0..width-1
    word,            \* place_word: the word popped
    retry_limit,     \* place_word: retry_limit
    tries,           \* place_word: iterations of `for _ in 0..retry_limit` done
    overflow_checks, \* "either" until an underflow wrapped, then "off"
    outcome,         \* the Err or the panic a run ended in
    result,          \* generate's Ok value: rows of letters
    attempts,        \* iterations of the retry loop counted over the run
    column_call      \* a call of column_iter: its arguments and its value

vars == << arg_wordlist, arg_width, arg_height, pc, wordlist, width, height,
           grid, word, retry_limit, tries, overflow_checks, outcome, result,
           attempts, column_call >>

\* no call of column_iter is modelled
NoCall == << >>

NoOutcome == [ kind |-> "none", what |-> "", word |-> << >>, attempts |-> 0 ]

Panic(what) == [ kind |-> "panic", what |-> what, word |-> << >>, attempts |-> 0 ]

\* anyhow!("Failed to place {} after {} retries", word, retry_limit)
PlacementError(w, n) ==
    [ kind |-> "error", what |-> "Failed to place", word |-> w, attempts |-> n ]

Rows(g) == DOMAIN g

Cols(g) == IF DOMAIN g = {} THEN {} ELSE DOMAIN g[CHOOSE y \in DOMAIN g : TRUE]

Cells(g) == { << x, y >> : x \in Cols(g), y \in Rows(g) }

\* vec![vec![None; w]; h]
EmptyGrid(w, h) == [ y \in 0..(h - 1) |-> [ x \in 0..(w - 1) |-> NoneCell ] ]

\* empty_count counting every cell
empty_count_all_cells(g) == Cardinality(Cells(g))

\* Grid::empty_count
empty_count(g) == Cardinality({ c \in Cells(g) : g[c[2]][c[1]] = NoneCell })

\* the i-th cell (1-based) of a run from (x0, y0) along dir; the usize
\* additions of try_word wrap, which the integer encoding follows
RunCell(dir, x0, y0, i) ==
    << x0 + (i - 1) * next(dir)[1], y0 + (i - 1) * next(dir)[2] >>

InGrid(g, c) == c[2] \in Rows(g) /\ c[1] \in DOMAIN g[c[2]]

\* CellFits without the comparison with the letter in place
CellFits_any(g, c, letter) == TRUE

\* CellFits that takes only a cell that is None
CellFits_only_empty(g, c, letter) == g[c[2]][c[1]] = NoneCell

\* try_word's first loop: the match arm taken at letter i
CellFits(g, c, letter) == g[c[2]][c[1]] = NoneCell \/ g[c[2]][c[1]] = letter

\* the first letter at which try_word's scan stops early, 0 if none
FirstStop(g, w, dir, x0, y0) ==
    LET stops == { i \in 1..Len(w) :
                     \/ ~InGrid(g, RunCell(dir, x0, y0, i))
                     \/ ~CellFits(g, RunCell(dir, x0, y0, i), w[i]) }
    IN  IF stops = {} THEN 0
        ELSE CHOOSE i \in stops : \A j \in stops : i <= j

\* Written with the last letter of the word left out
Written_drops_last(g, w, dir, x0, y0) ==
    [ y \in Rows(g) |-> [ x \in DOMAIN g[y] |->
        IF \E i \in 1..(Len(w) - 1) : RunCell(dir, x0, y0, i) = << x, y >>
        THEN w[CHOOSE i \in 1..(Len(w) - 1) : RunCell(dir, x0, y0, i) = << x, y >>]
        ELSE g[y][x] ] ]

\* Written that also stamps the first letter of the alphabet on cell (0, 0)
Written_marks_corner(g, w, dir, x0, y0) ==
    [ y \in Rows(g) |-> [ x \in DOMAIN g[y] |->
        IF \E i \in 1..Len(w) : RunCell(dir, x0, y0, i) = << x, y >>
        THEN w[CHOOSE i \in 1..Len(w) : RunCell(dir, x0, y0, i) = << x, y >>]
        ELSE IF << x, y >> = << 0, 0 >> THEN AZ[1] ELSE g[y][x] ] ]

\* try_word's second loop: the clone with the word written
Written(g, w, dir, x0, y0) ==
    [ y \in Rows(g) |-> [ x \in DOMAIN g[y] |->
        IF \E i \in 1..Len(w) : RunCell(dir, x0, y0, i) = << x, y >>
        THEN w[CHOOSE i \in 1..Len(w) : RunCell(dir, x0, y0, i) = << x, y >>]
        ELSE g[y][x] ] ]

\* Grid::try_word: Ok(grid), Err("Doesn't fit.") or an index panic
try_word(g, w, dir, x0, y0) ==
    LET i == FirstStop(g, w, dir, x0, y0)
    IN  IF i = 0 THEN [ kind |-> "Ok", grid |-> Written(g, w, dir, x0, y0) ]
        ELSE IF ~InGrid(g, RunCell(dir, x0, y0, i))
        THEN [ kind |-> "Panic", grid |-> g ]
        ELSE [ kind |-> "Err", grid |-> g ]

\* ------------------------------------------------------------- operations
Overrides == { NoneOpt } \cup { Some(v) : v \in 1..MaxOverride }

\* before Grid::new: the arguments of a generation run
Init ==
    /\ arg_wordlist \in ListsUpTo(MaxWords, WordsUpTo(MaxLen))
    /\ arg_width \in Overrides
    /\ arg_height \in Overrides
    /\ pc = "start"
    /\ wordlist = << >>
    /\ width = 0
    /\ height = 0
    /\ grid = << >>
    /\ word = << >>
    /\ retry_limit = 0
    /\ tries = 0
    /\ overflow_checks = "either"
    /\ outcome = NoOutcome
    /\ result = << >>
    /\ attempts = 0
    /\ column_call = NoCall

\* New without the max(longest_word, ...) floor
New_no_floor ==
    /\ pc = "start"
    /\ IF arg_wordlist = << >>
       THEN /\ pc' = "panic"
            /\ outcome' = Panic("max().unwrap() on None")
            /\ UNCHANGED << wordlist, width, height, grid >>
       ELSE LET w == unwrap_or(arg_width, default_size(arg_wordlist))
                h == unwrap_or(arg_height, default_size(arg_wordlist))
            IN  /\ wordlist' = arg_wordlist
                /\ width' = w
                /\ height' = h
                /\ grid' = EmptyGrid(w, h)
                /\ pc' = "constructed"
                /\ UNCHANGED outcome
    /\ UNCHANGED << arg_wordlist, arg_width, arg_height, word, retry_limit,
                    tries, overflow_checks, result, attempts, column_call >>

\* Grid::new; max().unwrap() panics on an empty list
New ==
    /\ pc = "start"
    /\ IF arg_wordlist = << >>
       THEN /\ pc' = "panic"
            /\ outcome' = Panic("max().unwrap() on None")
            /\ UNCHANGED << wordlist, width, height, grid >>
       ELSE LET longest_word == MaxLenOf(arg_wordlist)
                w == max(longest_word, unwrap_or(arg_width, default_size(arg_wordlist)))
                h == max(longest_word, unwrap_or(arg_height, default_size(arg_wordlist)))
            IN  /\ wordlist' = arg_wordlist
                /\ width' = w
                /\ height' = h
                /\ grid' = EmptyGrid(w, h)
                /\ pc' = "constructed"
                /\ UNCHANGED outcome
    /\ UNCHANGED << arg_wordlist, arg_width, arg_height, word, retry_limit,
                    tries, overflow_checks, result, attempts, column_call >>

\* the orders wordlist.shuffle can leave
Shuffles(ws) ==
    { [ i \in 1..Len(ws) |-> ws[f[i]] ] :
        f \in { g \in [1..Len(ws) -> 1..Len(ws)] :
                  \A i, j \in 1..Len(ws) : i # j => g[i] # g[j] } }

\* Grid::generate up to its call of place_word
Generate ==
    /\ pc = "constructed"
    /\ wordlist' \in Shuffles(wordlist)
    /\ pc' = "place"
    /\ UNCHANGED << arg_wordlist, arg_width, arg_height, width, height, grid,
                    word, retry_limit, tries, overflow_checks, outcome, result,
                    attempts, column_call >>

\* PlaceWord with half the empty cells as the budget
PlaceWord_half_budget ==
    /\ pc = "place"
    /\ wordlist # << >>
    /\ word' = wordlist[Len(wordlist)]
    /\ wordlist' = SubSeq(wordlist, 1, Len(wordlist) - 1)
    /\ retry_limit' = empty_count(grid) \div 2
    /\ tries' = 0
    /\ pc' = "retry"
    /\ UNCHANGED << arg_wordlist, arg_width, arg_height, width, height, grid,
                    overflow_checks, outcome, result, attempts, column_call >>

\* PlaceWord with every cell of the grid as the budget
PlaceWord_budget_all_cells ==
    /\ pc = "place"
    /\ wordlist # << >>
    /\ word' = wordlist[Len(wordlist)]
    /\ wordlist' = SubSeq(wordlist, 1, Len(wordlist) - 1)
    /\ retry_limit' = width * height
    /\ tries' = 0
    /\ pc' = "retry"
    /\ UNCHANGED << arg_wordlist, arg_width, arg_height, width, height, grid,
                    overflow_checks, outcome, result, attempts, column_call >>

\* Grid::place_word, Some(word) arm: pop the last word, set retry_limit
PlaceWord ==
    /\ pc = "place"
    /\ wordlist # << >>
    /\ word' = wordlist[Len(wordlist)]
    /\ wordlist' = SubSeq(wordlist, 1, Len(wordlist) - 1)
    /\ retry_limit' = empty_count(grid)
    /\ tries' = 0
    /\ pc' = "retry"
    /\ UNCHANGED << arg_wordlist, arg_width, arg_height, width, height, grid,
                    overflow_checks, outcome, result, attempts, column_call >>

\* the attempt ends the run in a panic
AttemptPanics(what, checks) ==
    /\ pc' = "panic"
    /\ outcome' = Panic(what)
    /\ overflow_checks' = checks
    /\ UNCHANGED << grid, tries >>

\* AttemptRejected that does not move on to the next iteration
AttemptRejected_same_iteration(checks) ==
    /\ tries' = tries
    /\ overflow_checks' = checks
    /\ UNCHANGED << pc, grid, outcome >>

\* Err(_) => (): the next iteration
AttemptRejected(checks) ==
    /\ tries' = tries + 1
    /\ overflow_checks' = checks
    /\ UNCHANGED << pc, grid, outcome >>

\* Ok(grid) => return Self { grid, wordlist, ..self }.place_word(rng)
AttemptAccepted(g, checks) ==
    /\ grid' = g
    /\ pc' = "place"
    /\ tries' = 0
    /\ overflow_checks' = checks
    /\ UNCHANGED outcome

\* one iteration of `for _ in 0..retry_limit` in Grid::place_word
Iteration ==
    /\ pc = "retry"
    /\ tries < retry_limit
    /\ \E dir \in Direction :
         LET rg == ranges(dir, Len(word), width, height)
             checks == IF Underflows(rg) THEN "off" ELSE overflow_checks
         IN  \/ /\ Underflows(rg)
                /\ overflow_checks = "either"
                /\ AttemptPanics("attempt to subtract with overflow", overflow_checks)
             \/ /\ RangeEmpty(rg.x) \/ RangeEmpty(rg.y)
                /\ AttemptPanics("cannot sample empty range", checks)
             \/ /\ ~RangeEmpty(rg.x)
                /\ ~RangeEmpty(rg.y)
                /\ \E x \in Samples(rg.x, width), y \in Samples(rg.y, height) :
                     LET r == try_word(grid, word, dir, x, y)
                     IN  CASE r.kind = "Ok" -> AttemptAccepted(r.grid, checks)
                           [] r.kind = "Err" -> AttemptRejected(checks)
                           [] r.kind = "Panic" ->
                                AttemptPanics("index out of bounds", checks)
    /\ UNCHANGED << arg_wordlist, arg_width, arg_height, wordlist, width, height,
                    word, retry_limit, result, column_call >>

\* the iteration in a run whose iterations are not counted
Attempt == Iteration /\ UNCHANGED attempts

\* the iteration in a run that counts them
CountedAttempt == Iteration /\ attempts' = attempts + 1

\* Exhausted going on to the next word instead of returning the Err
Exhausted_skips_word ==
    /\ pc = "retry"
    /\ tries = retry_limit
    /\ pc' = "place"
    /\ UNCHANGED << arg_wordlist, arg_width, arg_height, wordlist, width, height,
                    grid, word, retry_limit, tries, overflow_checks, outcome, result,
                    attempts, column_call >>

\* Grid::place_word after the loop: Err(anyhow!("Failed to place ..."))
Exhausted ==
    /\ pc = "retry"
    /\ tries = retry_limit
    /\ pc' = "failed"
    /\ outcome' = PlacementError(word, retry_limit)
    /\ UNCHANGED << arg_wordlist, arg_width, arg_height, wordlist, width, height,
                    grid, word, retry_limit, tries, overflow_checks, result,
                    attempts, column_call >>

\* fill that passes over the first cell
fill_skips_first(g, letters) ==
    [ y \in Rows(g) |-> [ x \in DOMAIN g[y] |->
        IF g[y][x] = NoneCell /\ << x, y >> # << 0, 0 >> THEN letters[<< x, y >>]
        ELSE g[y][x] ] ]

\* Grid::fill: a letter of 'A'..='Z' in every cell that is None
fill(g, letters) ==
    [ y \in Rows(g) |-> [ x \in DOMAIN g[y] |->
        IF g[y][x] = NoneCell THEN letters[<< x, y >>] ELSE g[y][x] ] ]

\* Fill run while one word is still waiting
Fill_before_last_word ==
    /\ pc = "place"
    /\ Len(wordlist) <= 1
    /\ \E letters \in [ { c \in Cells(grid) : grid[c[2]][c[1]] = NoneCell } -> Alphabet ] :
         grid' = fill(grid, letters)
    /\ pc' = "filled"
    /\ UNCHANGED << arg_wordlist, arg_width, arg_height, wordlist, width, height,
                    word, retry_limit, tries, overflow_checks, outcome, result,
                    attempts, column_call >>

\* Grid::place_word, None arm: self.fill(rng)
Fill ==
    /\ pc = "place"
    /\ wordlist = << >>
    /\ \E letters \in [ { c \in Cells(grid) : grid[c[2]][c[1]] = NoneCell } -> Alphabet ] :
         grid' = fill(grid, letters)
    /\ pc' = "filled"
    /\ UNCHANGED << arg_wordlist, arg_width, arg_height, wordlist, width, height,
                    word, retry_limit, tries, overflow_checks, outcome, result,
                    attempts, column_call >>

\* Grid::generate after place_word: cell.unwrap() of every cell, Ok(result)
Return ==
    /\ pc = "filled"
    /\ IF \E c \in Cells(grid) : grid[c[2]][c[1]] = NoneCell
       THEN /\ pc' = "panic"
            /\ outcome' = Panic("cell.unwrap() on None")
            /\ UNCHANGED result
       ELSE /\ pc' = "done"
            /\ result' = grid
            /\ UNCHANGED outcome
    /\ UNCHANGED << arg_wordlist, arg_width, arg_height, wordlist, width, height,
                    grid, word, retry_limit, tries, overflow_checks, attempts,
                    column_call >>

Next == New \/ Generate \/ PlaceWord \/ Attempt \/ Exhausted \/ Fill \/ Return

Spec == Init /\ [][Next]_vars

NextCounted ==
    New \/ Generate \/ PlaceWord \/ CountedAttempt \/ Exhausted \/ Fill \/ Return

\* the runs of Spec with the iterations of the retry loop counted
SpecCounted == Init /\ [][NextCounted]_vars

\* ------------------------------------------------------------- Grid::new alone
\* n words, the first k of length a and the others of length b
TwoLengths(n, k, a, b) ==
    [ i \in 1..n |-> [ j \in 1..(IF i <= k THEN a ELSE b) |-> AZ[1] ] ]

DimsLists ==
    { TwoLengths(n, k, a, b) :
        n \in 0..DimsMaxWords, k \in 0..DimsMaxWords, a \in 0..DimsMaxLen, b \in 0..DimsMaxLen }
    \cup { << << "C", "A", "T" >>, << "D", "O", "G" >> >> }

DimsOverrides == { NoneOpt } \cup { Some(v) : v \in 1..(DimsMaxLen + 1) }

\* the arguments of a call of Grid::new
InitDims ==
    /\ arg_wordlist \in DimsLists
    /\ arg_width \in DimsOverrides
    /\ arg_height \in DimsOverrides
    /\ pc = "start"
    /\ wordlist = << >>
    /\ width = 0
    /\ height = 0
    /\ grid = << >>
    /\ word = << >>
    /\ retry_limit = 0
    /\ tries = 0
    /\ overflow_checks = "either"
    /\ outcome = NoOutcome
    /\ result = << >>
    /\ attempts = 0
    /\ column_call = NoCall

NextDims == New

SpecDims == InitDims /\ [][NextDims]_vars

\* ------------------------------------------------------------- a Grid built directly
\* a Grid built field by field, as a test inside grid.rs can, with an empty
\* grid of any size, on which generate is called
InitEngine ==
    /\ wordlist \in ListsUpTo(EngineMaxWords, WordsUpTo(MaxLen))
    /\ width \in 1..MaxDim
    /\ height \in 1..MaxDim
    /\ grid = EmptyGrid(width, height)
    /\ arg_wordlist = wordlist
    /\ arg_width = NoneOpt
    /\ arg_height = NoneOpt
    /\ pc = "constructed"
    /\ word = << >>
    /\ retry_limit = 0
    /\ tries = 0
    /\ overflow_checks = "either"
    /\ outcome = NoOutcome
    /\ result = << >>
    /\ attempts = 0
    /\ column_call = NoCall

NextEngine == Generate \/ PlaceWord \/ Attempt \/ Exhausted \/ Fill \/ Return

SpecEngine == InitEngine /\ [][NextEngine]_vars

\* ------------------------------------------------------------- column_iter
\* num_rows of a column with `>=` in place of `>`
num_rows_inclusive(column, num_columns, length) ==
    IF length % num_columns >= column THEN (length \div num_columns) + 1
    ELSE length \div num_columns

\* column_iter: num_rows of one column, the quotient and one more under the remainder
num_rows(column, num_columns, length) ==
    IF length % num_columns > column THEN (length \div num_columns) + 1
    ELSE length \div num_columns

\* column_iter's inner loop: the items pushed for one column
column_rows(column, col_width, y_stride, rows) ==
    [ i \in 1..rows |-> << column * col_width, (i - 1) * y_stride >> ]

\* column_iter's outer loop from `column` on
RECURSIVE columns_from(_, _, _, _, _)
columns_from(column, col_width, y_stride, num_columns, length) ==
    IF column >= num_columns THEN << >>
    ELSE column_rows(column, col_width, y_stride, num_rows(column, num_columns, length))
           \o columns_from(column + 1, col_width, y_stride, num_columns, length)

\* column_iter, for num_columns > 0: the vector it iterates over
column_iter(image_width, y_stride, num_columns, length) ==
    LET col_width == image_width \div num_columns
    IN  columns_from(0, col_width, y_stride, num_columns, length)

\* the image widths and line heights of the calls: small ones and the test's
ImageWidths == (0..MaxImageWidth) \cup { 100 }

YStrides == (0..MaxYStride) \cup { 10 }

\* the arguments of a call of column_iter
InitColumns ==
    /\ \E iw \in ImageWidths, ys \in YStrides, nc \in 0..MaxColumns, len \in 0..MaxLength :
         column_call = [ image_width |-> iw, y_stride |-> ys, num_columns |-> nc,
                         length |-> len, result |-> NoneOpt ]
    /\ pc = "column_iter"
    /\ arg_wordlist = << >>
    /\ arg_width = NoneOpt
    /\ arg_height = NoneOpt
    /\ wordlist = << >>
    /\ width = 0
    /\ height = 0
    /\ grid = << >>
    /\ word = << >>
    /\ retry_limit = 0
    /\ tries = 0
    /\ overflow_checks = "either"
    /\ outcome = NoOutcome
    /\ result = << >>
    /\ attempts = 0

\* the call: image_width / num_columns panics when num_columns is 0
ColumnIter ==
    /\ pc = "column_iter"
    /\ column_call.result = NoneOpt
    /\ IF column_call.num_columns = 0
       THEN /\ pc' = "panic"
            /\ outcome' = Panic("attempt to divide by zero")
            /\ UNCHANGED column_call
       ELSE /\ column_call' =
                 [ column_call EXCEPT !.result =
                     Some(column_iter(column_call.image_width, column_call.y_stride,
                                      column_call.num_columns, column_call.length)) ]
            /\ UNCHANGED << pc, outcome >>
    /\ UNCHANGED << arg_wordlist, arg_width, arg_height, wordlist, width, height,
                    grid, word, retry_limit, tries, overflow_checks, result,
                    attempts >>

NextColumns == ColumnIter

SpecColumns == InitColumns /\ [][NextColumns]_vars

\* ------------------------------------------------------------- properties
NonEmptyWords(ws) == ws # << >> /\ \A i \in 1..Len(ws) : Len(ws[i]) > 0

\* reading Len(w) cells of g from (x, y) along dir stays inside g and spells w
Spells(g, w, x, y, dir) ==
    \A i \in 1..Len(w) :
        /\ InGrid(g, RunCell(dir, x, y, i))
        /\ g[RunCell(dir, x, y, i)[2]][RunCell(dir, x, y, i)[1]] = w[i]

Found(g, w) == \E c \in Cells(g), dir \in Direction : Spells(g, w, c[1], c[2], dir)

Letters(g) == { c \in Cells(g) : g[c[2]][c[1]] # NoneCell }

Longest(ws, n) == (\E i \in 1..Len(ws) : Len(ws[i]) = n) /\ (\A i \in 1..Len(ws) : Len(ws[i]) <= n)

\* the least s with s * s >= n
CeilSqrt(n) == CHOOSE s \in 0..n : s * s >= n /\ \A t \in 0..(s - 1) : t * t < n

(* C1 Full coverage: when generate returns a grid for a list of non-empty  *)
(* words, every input word can be read in the grid from some cell along    *)
(* one of the eight directions, without leaving the grid.                  *)
C1_FullCoverage ==
    (pc = "done" /\ NonEmptyWords(arg_wordlist)) =>
        \A i \in 1..Len(arg_wordlist) : Found(result, arg_wordlist[i])

\* a returned grid that holds two different two-letter words
C1_Witness ==
    /\ pc = "done"
    /\ NonEmptyWords(arg_wordlist)
    /\ Len(arg_wordlist) = 2
    /\ Len(arg_wordlist[1]) = 2
    /\ Len(arg_wordlist[2]) = 2
    /\ arg_wordlist[1] # arg_wordlist[2]
    /\ Found(result, arg_wordlist[1])
    /\ Found(result, arg_wordlist[2])

(* C2 No gaps: a grid that generate returns has height rows of width cells *)
(* each, the dimensions Grid::new computed, every cell a letter; and the   *)
(* unwrap of a cell in generate never panics.                              *)
C2_NoGaps ==
    /\ pc = "done" =>
        /\ DOMAIN result = 0..(height - 1)
        /\ \A y \in DOMAIN result :
             /\ DOMAIN result[y] = 0..(width - 1)
             /\ \A x \in DOMAIN result[y] : result[y][x] \in Alphabet
        /\ width = max(MaxLenOf(arg_wordlist),
                       unwrap_or(arg_width, default_size(arg_wordlist)))
        /\ height = max(MaxLenOf(arg_wordlist),
                        unwrap_or(arg_height, default_size(arg_wordlist)))
    /\ pc = "panic" => outcome.what # "cell.unwrap() on None"

\* a returned grid with more cells than the words have letters
C2_Witness ==
    /\ pc = "done"
    /\ Cardinality(Cells(result)) > SumLen(arg_wordlist)
    /\ SumLen(arg_wordlist) > 0

(* C3 No overwrite: no step of a run changes a cell that holds a letter;   *)
(* a placement or the fill writes a different value only into cells that   *)
(* were empty.                                                             *)
C3_NoOverwrite ==
    [][ \A c \in Letters(grid) : grid'[c[2]][c[1]] = grid[c[2]][c[1]] ]_vars

\* both words are committed and share a cell
C3_Witness ==
    /\ pc = "place"
    /\ wordlist = << >>
    /\ NonEmptyWords(arg_wordlist)
    /\ Len(arg_wordlist) = 2
    /\ arg_wordlist[1] # arg_wordlist[2]
    /\ Cardinality(Letters(grid)) < SumLen(arg_wordlist)

(* C4 Dimension floor: Grid::new on a non-empty list gives                 *)
(* width = max(longest, width override or default_size) and the same for   *)
(* height, so both are >= the longest word and >= any override given.      *)
C4_DimensionFloor ==
    pc = "constructed" =>
        \E longest \in 0..width :
            /\ Longest(arg_wordlist, longest)
            /\ width >= longest
            /\ height >= longest
            /\ arg_width # NoneOpt => width >= arg_width[1]
            /\ arg_height # NoneOpt => height >= arg_height[1]
            /\ width = max(longest, IF arg_width = NoneOpt
                                    THEN default_size(arg_wordlist) ELSE arg_width[1])
            /\ height = max(longest, IF arg_height = NoneOpt
                                     THEN default_size(arg_wordlist) ELSE arg_height[1])

\* a width override under the longest word and a height override over it
C4_Witness ==
    /\ pc = "constructed"
    /\ arg_width # NoneOpt
    /\ arg_height # NoneOpt
    /\ arg_width[1] < MaxLenOf(arg_wordlist)
    /\ arg_height[1] > MaxLenOf(arg_wordlist)
    /\ width = MaxLenOf(arg_wordlist)
    /\ height = arg_height[1]

(* C5 Default sizing formula: with no overrides Grid::new gives            *)
(* width = height = max(longest, least s with s*s >= 2 * total letters),   *)
(* here for non-empty words; CAT, DOG gives 4 x 4.                         *)
C5_DefaultSizing ==
    (pc = "constructed" /\ arg_width = NoneOpt /\ arg_height = NoneOpt
        /\ NonEmptyWords(arg_wordlist)) =>
        /\ width = height
        /\ width = max(MaxLenOf(arg_wordlist), CeilSqrt(2 * SumLen(arg_wordlist)))

(* C6 Exhaustion is fatal and reported: once retry_limit attempts of a     *)
(* word were rejected the next step is the failure, naming the word and    *)
(* retry_limit; it leaves the grid and the words not yet begun as they     *)
(* are, returns no grid, and nothing runs after it.                        *)
C6_ExhaustionFatal ==
    /\ [][ (pc = "retry" /\ tries = retry_limit) =>
              /\ pc' = "failed"
              /\ outcome' = PlacementError(word, retry_limit)
              /\ grid' = grid
              /\ wordlist' = wordlist
              /\ result' = << >> ]_vars
    /\ [][ pc' = "failed" => (pc = "retry" /\ tries = retry_limit) ]_vars
    /\ [][ pc # "failed" ]_vars
    /\ [](pc = "failed" => (result = << >> /\ outcome.kind = "error"))

\* a failure after rejected attempts, with a word placed and a word not begun
C6_Witness ==
    /\ pc = "failed"
    /\ outcome.attempts >= 1
    /\ outcome.word = word
    /\ wordlist # << >>
    /\ Letters(grid) # {}

Undersized == Len(word) > width \/ Len(word) > height

(* C7 Retry exhaustion on an undersized grid: once place_word has begun a  *)
(* word longer than an axis of the grid (a 2-letter word on a 1 x 1 grid), *)
(* the run ends in the placement error: not in a panic and not in a grid.  *)
C7_UndersizedExhausts ==
    (Undersized /\ pc # "retry") => (pc = "failed" /\ outcome.kind = "error")

(* C8 Empty word list: Grid::new on an empty list ends in an error value;  *)
(* no dimensions are computed and no grid is created.                      *)
C8_EmptyListError ==
    (arg_wordlist = << >> /\ pc # "start") =>
        (pc = "failed" /\ outcome.kind = "error" /\ grid = << >>)

(* C9 Every direction is usable and in bounds: on a grid built by          *)
(* Grid::new from non-empty words, for every word and direction the start  *)
(* ranges are [len-1, axis-1] on a negative-step axis and [0, axis-len]    *)
(* otherwise, both non-empty; every cell of a run from a start in them is  *)
(* inside the grid; no subtraction underflows and no run panics.           *)
C9_DirectionsUsable ==
    (pc # "start" /\ NonEmptyWords(arg_wordlist)) =>
        /\ pc # "panic"
        /\ overflow_checks = "either"
        /\ \A i \in 1..Len(arg_wordlist), dir \in Direction :
             LET len == Len(arg_wordlist[i])
                 rg == ranges(dir, len, width, height)
             IN  /\ ~Underflows(rg)
                 /\ rg.x = IF next(dir)[1] < 0 THEN << len - 1, width - 1 >>
                           ELSE << 0, width - len >>
                 /\ rg.y = IF next(dir)[2] < 0 THEN << len - 1, height - 1 >>
                           ELSE << 0, height - len >>
                 /\ rg.x[1] <= rg.x[2]
                 /\ rg.y[1] <= rg.y[2]
                 /\ \A x \in Samples(rg.x, width), y \in Samples(rg.y, height) :
                      \A k \in 1..len :
                          /\ RunCell(dir, x, y, k)[1] \in 0..(width - 1)
                          /\ RunCell(dir, x, y, k)[2] \in 0..(height - 1)

\* a word as long as both axes, committed from the last cell to the northwest
C9_Witness ==
    /\ pc = "place"
    /\ NonEmptyWords(arg_wordlist)
    /\ Len(word) >= 2
    /\ Len(word) = width
    /\ Len(word) = height
    /\ Spells(grid, word, width - 1, height - 1, "Northwest")

(* C11 column_iter with num_columns >= 1 yields exactly `length` items,     *)
(* column by column with rows ascending: column c holds                    *)
(* floor(length/num_columns) rows and one more when c < length mod         *)
(* num_columns, and the item of column c, row r is                         *)
(* (c * floor(image_width/num_columns), r * y_stride); the vectors of      *)
(* test_column_iter come out as the test lists them.                       *)
C11_ColumnLayout ==
    (column_call # NoCall /\ column_call.result # NoneOpt) =>
        LET iw == column_call.image_width
            ys == column_call.y_stride
            nc == column_call.num_columns
            len == column_call.length
            out == column_call.result[1]
            rows(c) == (len \div nc) + (IF c < len % nc THEN 1 ELSE 0)
            before(c) == c * (len \div nc) + (IF c < len % nc THEN c ELSE len % nc)
        IN  /\ nc >= 1
            /\ Len(out) = len
            /\ \A c \in 0..(nc - 1) : \A r \in 0..(rows(c) - 1) :
                 out[before(c) + r + 1] = << c * (iw \div nc), r * ys >>
            /\ (iw = 100 /\ ys = 10 /\ nc = 3 /\ len = 5) =>
                 out = << << 0, 0 >>, << 0, 10 >>, << 33, 0 >>, << 33, 10 >>, << 66, 0 >> >>
            /\ (iw = 100 /\ ys = 10 /\ nc = 3 /\ len = 2) =>
                 out = << << 0, 0 >>, << 33, 0 >> >>

\* the test's call with five words: two rows in the first two columns, one in the third
C11_Witness ==
    /\ column_call # NoCall
    /\ column_call.image_width = 100
    /\ column_call.y_stride = 10
    /\ column_call.num_columns = 3
    /\ column_call.length = 5
    /\ column_call.result # NoneOpt
    /\ Len(column_call.result[1]) = 5
    /\ column_call.result[1][2] = << 0, 10 >>
    /\ column_call.result[1][5] = << 66, 0 >>

\* cells of the grid that hold no letter
Empties(g) == Cells(g) \ Letters(g)

(* C12 Retry budget: when place_word begins a word, retry_limit is the     *)
(* number of empty cells of the grid at that moment and the count of       *)
(* attempts starts at 0; while the word is retried the budget stays that   *)
(* number, each attempt counts one, and the attempts never exceed it; the  *)
(* budget of a word is never larger than that of the word before it.       *)
C12_RetryBudget ==
    /\ [][ (pc = "place" /\ pc' = "retry") =>
              /\ retry_limit' = Cardinality(Empties(grid))
              /\ tries' = 0
              /\ Len(wordlist') < Len(arg_wordlist) - 1 => retry_limit' <= retry_limit ]_vars
    /\ [][ (pc = "retry" /\ pc' = "retry") =>
              /\ retry_limit' = retry_limit
              /\ tries' = tries + 1 ]_vars
    /\ [](pc = "retry" =>
              /\ retry_limit = Cardinality(Empties(grid))
              /\ tries <= retry_limit)
    /\ [](pc = "failed" => (tries = retry_limit /\ outcome.attempts = retry_limit))

\* the second word is being retried on a budget that the first word's letters reduced
C12_Witness ==
    /\ pc = "retry"
    /\ Len(arg_wordlist) = 2
    /\ wordlist = << >>
    /\ tries >= 1
    /\ retry_limit >= 2
    /\ retry_limit = width * height - 2
    /\ Cardinality(Letters(grid)) = 2

\* every cell of the run is in the grid and is empty or holds the word's letter there
RunFits(g, w, dir, x, y) ==
    \A i \in 1..Len(w) :
        /\ InGrid(g, RunCell(dir, x, y, i))
        /\ g[RunCell(dir, x, y, i)[2]][RunCell(dir, x, y, i)[1]] \in { NoneCell, w[i] }

\* the starts place_word can draw for the word in a direction
Starts(dir) ==
    LET rg == ranges(dir, Len(word), width, height)
    IN  IF RangeEmpty(rg.x) \/ RangeEmpty(rg.y) THEN {}
        ELSE Samples(rg.x, width) \X Samples(rg.y, height)

(* C13 Acceptance rule: for the word being placed, every direction and     *)
(* every start place_word can draw, try_word accepts if and only if every  *)
(* cell of the run is empty or already holds the word's letter of that     *)
(* position; a step that commits the word comes from such a run, and a     *)
(* rejected step from a run with a cell that holds a different letter.     *)
C13_AcceptanceRule ==
    /\ [](pc = "retry" =>
            \A dir \in Direction : \A st \in Starts(dir) :
                (try_word(grid, word, dir, st[1], st[2]).kind = "Ok")
                    <=> RunFits(grid, word, dir, st[1], st[2]))
    /\ [][ (pc = "retry" /\ pc' = "place") =>
              \E dir \in Direction : \E st \in Starts(dir) :
                  /\ RunFits(grid, word, dir, st[1], st[2])
                  /\ Spells(grid', word, st[1], st[2], dir) ]_vars
    /\ [][ (pc = "retry" /\ tries' = tries + 1) =>
              \E dir \in Direction : \E st \in Starts(dir) :
                  \E i \in 1..Len(word) :
                      /\ InGrid(grid, RunCell(dir, st[1], st[2], i))
                      /\ grid[RunCell(dir, st[1], st[2], i)[2]][RunCell(dir, st[1], st[2], i)[1]]
                           \notin { NoneCell, word[i] } ]_vars

\* after a rejected attempt, a run of the word that crosses a placed letter is acceptable
C13_Witness ==
    /\ pc = "retry"
    /\ tries >= 1
    /\ Len(word) = 2
    /\ \E dir \in Direction : \E st \in Starts(dir) :
         /\ try_word(grid, word, dir, st[1], st[2]).kind = "Ok"
         /\ \E i \in 1..Len(word) : RunCell(dir, st[1], st[2], i) \in Letters(grid)

\* the cells of the run of w from (x, y) along dir
RunCells(w, dir, x, y) == { RunCell(dir, x, y, i) : i \in 1..Len(w) }

(* C14 Attempt frame effect: a rejected attempt changes no cell of the     *)
(* grid; an accepted attempt changes only cells of the word's run, at most *)
(* length(word) of them, which then spell the word; neither changes the    *)
(* dimensions or the words still to be placed.                             *)
C14_AttemptFrame ==
    /\ [][ (pc = "retry" /\ tries' = tries + 1) =>
              /\ grid' = grid
              /\ << width', height', wordlist', word' >> = << width, height, wordlist, word >> ]_vars
    /\ [][ (pc = "retry" /\ pc' = "place") =>
              /\ \E dir \in Direction : \E st \in Starts(dir) :
                   /\ \A c \in Cells(grid) \ RunCells(word, dir, st[1], st[2]) :
                        grid'[c[2]][c[1]] = grid[c[2]][c[1]]
                   /\ Spells(grid', word, st[1], st[2], dir)
              /\ Cells(grid') = Cells(grid)
              /\ Cardinality({ c \in Cells(grid) : grid'[c[2]][c[1]] # grid[c[2]][c[1]] })
                   <= Len(word)
              /\ << width', height', wordlist' >> = << width, height, wordlist >> ]_vars

\* the second word was committed across the first: three letters, and empty cells left over
C14_Witness ==
    /\ pc = "place"
    /\ Len(arg_wordlist) = 2
    /\ wordlist = << >>
    /\ Len(arg_wordlist[1]) = 2
    /\ Len(arg_wordlist[2]) = 2
    /\ Cardinality(Letters(grid)) = 3
    /\ Cardinality(Empties(grid)) >= 1
    /\ Found(grid, arg_wordlist[1])
    /\ Found(grid, arg_wordlist[2])

\* the run has ended: a grid was returned, place_word returned its Err, or a panic
Terminal == pc \in { "done", "failed", "panic" }

\* an upper bound on the steps a run can still take from a state after Grid::new
StepsLeft ==
    LET perWord == width * height + 2
    IN  CASE pc = "constructed" -> Len(wordlist) * perWord + 3
          [] pc = "place" -> Len(wordlist) * perWord + 2
          [] pc = "retry" -> Len(wordlist) * perWord + (retry_limit - tries) + 3
          [] pc = "filled" -> 1
          [] OTHER -> 0

\* the steps of a counted run after Grid::new
AfterNew == Generate \/ PlaceWord \/ CountedAttempt \/ Exhausted \/ Fill \/ Return

(* C15 Termination and attempt bound: a generation run over a non-empty    *)
(* list of non-empty words ends, with a grid or with the placement error:  *)
(* Grid::new is one step, which always returns; every later step lowers a  *)
(* bound on the steps left that is never negative; a state after Grid::new *)
(* that is not an end always has a next step; and no end is a panic. The   *)
(* attempts counted over the whole run never exceed                        *)
(* width * height * number of words.                                       *)
C15_TerminationBound ==
    /\ [][ NonEmptyWords(arg_wordlist) =>
              /\ pc = "start" => pc' = "constructed"
              /\ pc # "start" => (StepsLeft' < StepsLeft /\ StepsLeft' >= 0) ]_vars
    /\ [](NonEmptyWords(arg_wordlist) =>
              /\ pc # "panic"
              /\ Terminal \/ pc = "start" \/ ENABLED AfterNew
              /\ attempts <= width * height * Len(arg_wordlist))

\* a run that ended in the placement error after rejected attempts
C15_Witness ==
    /\ pc = "failed"
    /\ NonEmptyWords(arg_wordlist)
    /\ attempts >= 3
    /\ attempts <= width * height * Len(arg_wordlist)

(* C16 Fill ordering: the fill runs only from place_word with no word     *)
(* left, every word of the list (of non-empty words) being readable in the *)
(* grid at that moment; it is the only step possible there; it writes a    *)
(* letter into every empty cell and changes no cell that held one; after   *)
(* it the run only returns the grid, unchanged, so no word is placed after *)
(* it and it runs once; a grid is returned only after it; it panics or     *)
(* fails in no run, and a run that failed takes no further step.           *)
C16_FillOrdering ==
    /\ []((pc = "place" /\ wordlist = << >> /\ NonEmptyWords(arg_wordlist)) =>
              \A i \in 1..Len(arg_wordlist) : Found(grid, arg_wordlist[i]))
    /\ [][ pc' = "filled" =>
              /\ pc = "place"
              /\ wordlist = << >>
              /\ \A c \in Letters(grid) : grid'[c[2]][c[1]] = grid[c[2]][c[1]]
              /\ \A c \in Empties(grid) : grid'[c[2]][c[1]] \in Alphabet
              /\ Empties(grid') = {} ]_vars
    /\ [][ (pc = "place" /\ wordlist = << >>) => pc' = "filled" ]_vars
    /\ [][ pc = "filled" => (pc' = "done" /\ grid' = grid /\ result' = grid) ]_vars
    /\ [][ pc' = "done" => pc = "filled" ]_vars
    /\ [][ pc' = "failed" => pc = "retry" ]_vars
    /\ [][ pc \notin { "done", "failed" } ]_vars

\* the fill has run on a grid that held both words and had empty cells left
C16_Witness ==
    /\ pc = "filled"
    /\ Len(arg_wordlist) = 2
    /\ NonEmptyWords(arg_wordlist)
    /\ wordlist = << >>
    /\ Empties(grid) = {}
    /\ Cardinality(Cells(grid)) > SumLen(arg_wordlist)
    /\ \A i \in 1..2 : Found(grid, arg_wordlist[i])

(* C17 Range guard: once the start ranges were computed for a word longer  *)
(* than an axis, the run has ended in an error named InvalidDimensionError; *)
(* no run produces an underflowed or wrapped-around range, samples an      *)
(* empty one, or indexes the grid outside its bounds.                      *)
C17_RangeGuard ==
    /\ overflow_checks = "either"
    /\ pc = "panic" =>
         outcome.what \notin { "attempt to subtract with overflow",
                               "cannot sample empty range",
                               "index out of bounds" }
    /\ (Undersized /\ pc # "retry" /\ retry_limit > 0) =>
         (pc = "failed" /\ outcome.kind = "error" /\ outcome.what = "InvalidDimensionError")

\* place_word is retrying the first word of the run
FirstWord == pc = "retry" /\ Len(wordlist) = Len(arg_wordlist) - 1

(* C18 First word: in a run over non-empty words the first word begun      *)
(* finds the grid entirely empty and a budget of width * height >= 1, is   *)
(* never rejected, and its first attempt commits it; so a run fails only   *)
(* with at least two words begun, and a run over a single word never       *)
(* fails or panics and ends only by returning the grid.                    *)
C18_FirstWordCommitted ==
    /\ []((NonEmptyWords(arg_wordlist) /\ FirstWord) =>
            /\ Letters(grid) = {}
            /\ retry_limit = width * height
            /\ retry_limit >= 1
            /\ tries = 0)
    /\ [][ (NonEmptyWords(arg_wordlist) /\ FirstWord) =>
              /\ pc' = "place"
              /\ Found(grid', word)
              /\ Cardinality(Letters(grid')) = Len(word) ]_vars
    /\ []((NonEmptyWords(arg_wordlist) /\ pc = "failed") =>
            Len(wordlist) <= Len(arg_wordlist) - 2)
    /\ []((NonEmptyWords(arg_wordlist) /\ Len(arg_wordlist) = 1 /\ Terminal) => pc = "done")

\* the first word of two was committed by its first attempt and the second still waits
C18_Witness ==
    /\ pc = "place"
    /\ NonEmptyWords(arg_wordlist)
    /\ Len(arg_wordlist) = 2
    /\ Len(wordlist) = 1
    /\ Len(word) = 2
    /\ Found(grid, word)
    /\ Cardinality(Letters(grid)) = 2

(* C19 Zero budget: a word that place_word begins on a grid with no empty   *)
(* cell gets retry_limit 0; no attempt is made for it, the only step is    *)
(* the failure, reporting 0 retries and leaving the grid as it is; this    *)
(* holds whether or not the word can be read in the grid already.          *)
C19_ZeroBudgetFails ==
    /\ [][ (pc = "place" /\ wordlist # << >> /\ Empties(grid) = {}) =>
              /\ pc' = "retry"
              /\ word' = wordlist[Len(wordlist)]
              /\ retry_limit' = 0
              /\ tries' = 0 ]_vars
    /\ [][ (pc = "retry" /\ Empties(grid) = {}) =>
              /\ pc' = "failed"
              /\ outcome' = PlacementError(word, 0)
              /\ tries' = 0
              /\ grid' = grid ]_vars
    /\ []((pc = "retry" /\ Empties(grid) = {}) => (retry_limit = 0 /\ tries = 0))

\* a duplicate of the word that filled the grid has failed with no attempt, though the grid spells it
C19_Witness ==
    /\ pc = "failed"
    /\ Empties(grid) = {}
    /\ Len(arg_wordlist) = 2
    /\ arg_wordlist[1] = arg_wordlist[2]
    /\ Len(word) >= 1
    /\ Found(grid, word)
    /\ RunFits(grid, word, "East", 0, 0)
    /\ outcome = PlacementError(word, 0)
    /\ tries = 0

====
